---- MODULE Spec2Model ----
(***************************************************************************)
(* A model of the sling HTTP request builder (package sling).              *)
(*                                                                         *)
(*   SpecDispatch  one call of Receive / ReceiveSuccess /                  *)
(*                 ReceiveWithContext: request(), do(), doDecode(),        *)
(*                 decodeResponse(), readWithCap(), the deferred drain and *)
(*                 the deferred Close of the response body.                *)
(*                                                                         *)
(*   SpecDo        one call of Do: request(), do() and the status check.   *)
(*                                                                         *)
(*   SpecBuilder   Sling values, New() and the header, body and query      *)
(*                 mutators, with Go's slice and map sharing.              *)
(*                                                                         *)
(*   SpecTrace     one traced response body (bodyWithTracer) under any     *)
(*                 sequence of Read and Close calls by a single consumer.  *)
(*                                                                         *)
(*   SpecRequest   one Sling under Base, Path, Method, the method setters, *)
(*                 query and header mutators and Request(), with net/url's *)
(*                 parsing, reference resolution and query encoding.       *)
(*                                                                         *)
(* Every specification leaves the variables of the other parts at their    *)
(* idle values.                                                            *)
(***************************************************************************)
EXTENDS Integers, Sequences, FiniteSets, TLC

VARIABLES
    \* ---- one Receive call (sling.go 497-652, response.go) ----
    pc,          \* position of the call
    successV,    \* TRUE iff a non-nil successV was passed
    failureV,    \* TRUE iff a non-nil failureV was passed
    doErr,       \* error returned by httpClient.Do ("none" when it returned a response)
    ctxCause,    \* context.Cause(req.Context()): "none" or a recorded cause
    resp,        \* the *http.Response the transport returned, or NoResp (nil)
    body,        \* resp.Body: bytes consumed so far
    bodyLog,     \* terminal events seen on resp.Body: "eof", "err", "close"
    decodeCalls, \* destinations responseDecoder.Decode was invoked with, in order
    capRead,     \* bytes readWithCap took from the body (-1: it did not run)
    retResp,     \* first result of the call: "nil" or "summary"
    retErr,      \* second result of the call: NoErr or an error record
    \* ---- one bodyWithTracer (tracer.go, and the copy at sling.go 654-698) ----
    tImpl,         \* which definition of bodyWithTracer is built
    tRemaining,    \* bytes the wrapped stream still holds
    tClosed,       \* the wrapped stream's Close has succeeded
    hasEnded,      \* bodyWithTracer.hasEnded
    endTraceCalls, \* invocations of tracer.EndTrace so far
    tCalls,        \* Read and Close calls made on the traced body so far
    tLast,         \* the last call: what the wrapped stream gave, what was returned
    eofReturned,   \* a Read in which the wrapped stream reported io.EOF has returned
    closeReturned, \* a Close has returned
    \* ---- Sling values and the memory their header slices live in (sling.go 117-406) ----
    slings,        \* the Sling values made so far: header map, queryStructs, bodyProvider
    heap,          \* backing arrays of the []string values of the header maps
    ops,           \* mutator calls made so far
    expected,      \* what each Sling's own mutators alone produce (value semantics)
    cloneOf,       \* the Sling each Sling was made from by New()
    parentSnap,    \* headers and query sources of cloneOf[c] when c was made, kept
                   \* while exclusive[c]
    exclusive,     \* since c was made, mutators were applied to c only
    lastCall,      \* the last mutator call: the Sling and the arguments it was given
    \* ---- URL, method and requests of a Sling (sling.go 197-251, 309-335, 408-480) ----
    queryHeld,     \* what each query source handed to the Sling holds
    reqs,          \* the results of the Request() calls made so far, in order
    urlCall        \* the last Base, Path, Method, method setter or Request() call

dispatchVars == <<pc, successV, failureV, doErr, ctxCause, resp, body, bodyLog,
                  decodeCalls, capRead, retResp, retErr>>

traceVars == <<tImpl, tRemaining, tClosed, hasEnded, endTraceCalls, tCalls, tLast,
               eofReturned, closeReturned>>

builderVars == <<slings, heap, ops, expected, cloneOf, parentSnap, exclusive, lastCall>>

requestVars == <<queryHeld, reqs, urlCall>>

vars == <<dispatchVars, traceVars, builderVars, requestVars>>

----------------------------------------------------------------------------
(* Program constants *)

StatusNoContent == 204

maxBodySize == 100

----------------------------------------------------------------------------
(* Go slices: a slice is a backing array, a length and the array's capacity *)

\* a nil slice; also what the header map gives for an absent key
NilSlice == [arr |-> 0, len |-> 0]

\* content of an array cell no slice has written yet
Blank == ""

Cap(hp, sl) == IF sl.arr = 0 THEN 0 ELSE Len(hp[sl.arr])

\* the elements a slice shows
Vals(hp, sl) == [i \in 1..sl.len |-> hp[sl.arr][i]]

\* capacity of the array append allocates for a slice that is full (the gc
\* runtime's growslice for small slices: double, or the needed length)
GrowCap(old, need) == IF need > 2 * old THEN need ELSE 2 * old

\* append(sl, v): in place when the array has room, else into a new array
GoAppend(hp, sl, v) ==
    IF sl.len < Cap(hp, sl)
    THEN [heap  |-> [hp EXCEPT ![sl.arr][sl.len + 1] = v],
          slice |-> [sl EXCEPT !.len = @ + 1]]
    ELSE LET newcap == GrowCap(Cap(hp, sl), sl.len + 1)
             arr == [i \in 1..newcap |->
                        IF i <= sl.len THEN hp[sl.arr][i]
                        ELSE IF i = sl.len + 1 THEN v ELSE Blank]
         IN  [heap  |-> Append(hp, arr),
              slice |-> [arr |-> Len(hp) + 1, len |-> sl.len + 1]]

\* append([]interface{}{}, xs...): a new array holding a copy of xs
GoCopy(hp, sl) ==
    IF sl.len = 0
    THEN [heap |-> hp, slice |-> NilSlice]
    ELSE [heap |-> Append(hp, Vals(hp, sl)),
          slice |-> [arr |-> Len(hp) + 1, len |-> sl.len]]

----------------------------------------------------------------------------
(* Sling values *)

MaxVals == 4

MaxQuery == 2

MaxOps == 2

\* parentSling, fooSling, barSling: in the order New() makes them
SlingOrder == <<"base", "foo", "bar">>

SlingNames == {SlingOrder[i] : i \in DOMAIN SlingOrder}

HeaderKeys == {"Authorization", "Content-Type", "X-Id"}

RawKeys == {"X-Id", "x-id"}

HeaderValues == {"a", "b"}

\* http.CanonicalHeaderKey on the keys used here
CanonicalHeaderKey(k) ==
    CASE k \in {"X-Id", "x-id"} -> "X-Id"
      [] k \in {"Content-Type", "content-type"} -> "Content-Type"
      [] k \in {"Authorization", "authorization"} -> "Authorization"

contentType == "Content-Type"

jsonContentType == "application/json"

formContentType == "application/x-www-form-urlencoded"

\* BodyProvider.ContentType() of bodyProvider, jsonBodyProvider, formBodyProvider
ContentType(provider) ==
    CASE provider = "raw"  -> ""
      [] provider = "json" -> jsonContentType
      [] provider = "form" -> formContentType

Base64Alphabet ==
    << "A","B","C","D","E","F","G","H","I","J","K","L","M","N","O","P",
       "Q","R","S","T","U","V","W","X","Y","Z","a","b","c","d","e","f",
       "g","h","i","j","k","l","m","n","o","p","q","r","s","t","u","v",
       "w","x","y","z","0","1","2","3","4","5","6","7","8","9","+","/" >>

B64(n) == Base64Alphabet[(n % 64) + 1]

RECURSIVE StdEncoding(_)
\* base64.StdEncoding.EncodeToString on a sequence of bytes
StdEncoding(bytes) ==
    IF Len(bytes) = 0 THEN ""
    ELSE IF Len(bytes) = 1
    THEN LET n == bytes[1] * 65536
         IN  B64(n \div 262144) \o B64(n \div 4096) \o "=="
    ELSE IF Len(bytes) = 2
    THEN LET n == bytes[1] * 65536 + bytes[2] * 256
         IN  B64(n \div 262144) \o B64(n \div 4096) \o B64(n \div 64) \o "="
    ELSE LET n == bytes[1] * 65536 + bytes[2] * 256 + bytes[3]
         IN  B64(n \div 262144) \o B64(n \div 4096) \o B64(n \div 64) \o B64(n)
             \o StdEncoding(SubSeq(bytes, 4, Len(bytes)))

\* basicAuth: base64 of username ":" password (58 is the colon)
basicAuth(username, password) == StdEncoding(username \o <<58>> \o password)

\* user names and passwords, as bytes: "u"/"p"
Credentials == {[username |-> <<117>>, password |-> <<112>>]}

\* The calls a mutator makes on s.header, in order
HAdd(key, value) == [op |-> "Add", key |-> key, value |-> value]

HSet(key, value) == [op |-> "Set", key |-> key, value |-> value]

headerSetInPlace(st, key, value) ==
    LET k  == CanonicalHeaderKey(key)
        sl == st.h[k]
    IN  IF sl.arr = 0
        THEN [h    |-> [st.h EXCEPT ![k] = [arr |-> Len(st.heap) + 1, len |-> 1]],
              heap |-> Append(st.heap, <<value>>)]
        ELSE [h    |-> [st.h EXCEPT ![k] = [sl EXCEPT !.len = 1]],
              heap |-> [st.heap EXCEPT ![sl.arr][1] = value]]

\* http.Header.Set: h[CanonicalKey(key)] = []string{value}
headerSet(st, key, value) ==
    LET k == CanonicalHeaderKey(key)
    IN  [h    |-> [st.h EXCEPT ![k] = [arr |-> Len(st.heap) + 1, len |-> 1]],
         heap |-> Append(st.heap, <<value>>)]

\* Add that replaces the key's values, as Set does
headerAddReplaces(st, key, value) ==
    LET k == CanonicalHeaderKey(key)
    IN  [h    |-> [st.h EXCEPT ![k] = [arr |-> Len(st.heap) + 1, len |-> 1]],
         heap |-> Append(st.heap, <<value>>)]

\* http.Header.Add: h[CanonicalKey(key)] = append(h[CanonicalKey(key)], value)
headerAdd(st, key, value) ==
    LET k == CanonicalHeaderKey(key)
        r == GoAppend(st.heap, st.h[k], value)
    IN  [h |-> [st.h EXCEPT ![k] = r.slice], heap |-> r.heap]

RECURSIVE RunSteps(_, _)
RunSteps(st, steps) ==
    IF steps = <<>> THEN st
    ELSE LET c == Head(steps)
         IN  RunSteps(IF c.op = "Add" THEN headerAdd(st, c.key, c.value)
                      ELSE headerSet(st, c.key, c.value),
                      Tail(steps))

\* The same calls on a header map held by value: what the calls produce when
\* no array is shared with another Sling
RECURSIVE RunStepsByValue(_, _)
RunStepsByValue(hv, steps) ==
    IF steps = <<>> THEN hv
    ELSE LET c == Head(steps)
             k == CanonicalHeaderKey(c.key)
         IN  RunStepsByValue(
                 [hv EXCEPT ![k] = IF c.op = "Add" THEN Append(@, c.value)
                                   ELSE <<c.value>>],
                 Tail(steps))

\* Arguments of AddHeaders / SetHeaders as the range loop visits them: Go
\* visits the keys of a map in no fixed order.
HeaderArgs ==
    { << [key |-> "x-id", values |-> <<"a", "b", "a">>] >> }

RECURSIVE AddHeadersSteps(_)
AddHeadersSteps(headers) ==
    IF headers = <<>> THEN <<>>
    ELSE LET e == Head(headers)
         IN  [i \in 1..Len(e.values) |-> HAdd(e.key, e.values[i])]
             \o AddHeadersSteps(Tail(headers))

RECURSIVE SetHeadersSteps(_)
SetHeadersSteps(headers) ==
    IF headers = <<>> THEN <<>>
    ELSE LET e == Head(headers)
         IN  [i \in 1..Len(e.values) |->
                 IF i = 1 THEN HSet(e.key, e.values[i]) ELSE HAdd(e.key, e.values[i])]
             \o SetHeadersSteps(Tail(headers))

QueryValuesArgs == {"nil", "url.Values{a:[1]}"}

QueryStructArgs == {"nil", "&Params{Count:5}"}

\* A raw URL, a path or a raw query is the sequence of the pieces of its text:
\* "http://h/?a=0" is <<"http", ":", "//", "h", "/", "?", "a", "=", "0">>.
NoSling == [alive |-> FALSE,
            httpClient |-> "nil",
            method |-> "",
            rawURL |-> <<>>,
            header |-> [k \in HeaderKeys |-> NilSlice],
            queryStructs |-> NilSlice,
            bodyProvider |-> "nil",
            responseDecoder |-> "nil"]

\* sling.New()
NewSling == [NoSling EXCEPT !.alive = TRUE,
                            !.httpClient = "http.DefaultClient",
                            !.method = "GET",
                            !.responseDecoder = "jsonDecoder{}"]

\* what a Sling shows: every key's values, and the query sources
Observed(sl, hp, b) ==
    [header |-> [k \in HeaderKeys |-> Vals(hp, sl[b].header[k])],
     queryStructs |-> Vals(hp, sl[b].queryStructs)]

\* Arrays no slice refers to are dropped and the rest renumbered, and cells
\* beyond every referring slice's length are blanked: a cell is written by
\* append before any slice shows it.
SlicesOf(sl) ==
    {sl[b].header[k] : b \in SlingNames, k \in HeaderKeys}
        \cup {sl[b].queryStructs : b \in SlingNames}

UsedArrays(sl) == {x.arr : x \in SlicesOf(sl)} \ {0}

Rank(u, id) == Cardinality({j \in u : j <= id})

Renumber(u, x) == IF x.arr = 0 THEN x ELSE [x EXCEPT !.arr = Rank(u, x.arr)]

NormSlings(sl) ==
    LET u == UsedArrays(sl)
    IN  [b \in SlingNames |->
            [sl[b] EXCEPT !.header = [k \in HeaderKeys |-> Renumber(u, sl[b].header[k])],
                          !.queryStructs = Renumber(u, @)]]

RECURSIVE KeepUsed(_, _, _)
KeepUsed(refs, hp, j) ==
    IF j > Len(hp) THEN <<>>
    ELSE LET shown == {x.len : x \in {y \in refs : y.arr = j}}
         IN  (IF shown = {} THEN <<>>
              ELSE << [i \in 1..Len(hp[j]) |->
                         IF \E n \in shown : i <= n THEN hp[j][i] ELSE Blank] >>)
             \o KeepUsed(refs, hp, j + 1)

NormHeap(sl, hp) == KeepUsed(SlicesOf(sl), hp, 1)

\* headers and query sources of a Sling that has none
NoSnap == [header |-> [k \in HeaderKeys |-> <<>>], queryStructs |-> <<>>]

----------------------------------------------------------------------------
(* URLs: net/url as Path and requestWithContext use it *)

\* a piece of text that is not a valid percent-escape
BadEscape == "%zz"

\* position of the first / last occurrence of a piece, 0 when absent
FirstIndex(t, x) ==
    IF \E i \in DOMAIN t : t[i] = x
    THEN CHOOSE i \in DOMAIN t : t[i] = x /\ \A j \in DOMAIN t : t[j] = x => i <= j
    ELSE 0

LastIndex(t, x) ==
    IF \E i \in DOMAIN t : t[i] = x
    THEN CHOOSE i \in DOMAIN t : t[i] = x /\ \A j \in DOMAIN t : t[j] = x => j <= i
    ELSE 0

From(t, i) == SubSeq(t, i, Len(t))

NoURL == [err |-> "nil", scheme |-> "", host |-> "", path |-> <<>>, rawQuery |-> <<>>]

\* url.Parse: scheme up to the first ":", query after the first "?", host
\* after "//", then the path; a text that begins with ":" has no scheme, and
\* the host and the path (not the query) must hold valid escapes
urlParse(raw) ==
    IF raw # <<>> /\ raw[1] = ":"
    THEN [NoURL EXCEPT !.err = "missing protocol scheme"]
    ELSE LET hasScheme == Len(raw) >= 2 /\ raw[2] = ":"
             rest      == IF hasScheme THEN From(raw, 3) ELSE raw
             qi        == FirstIndex(rest, "?")
             hier      == IF qi = 0 THEN rest ELSE SubSeq(rest, 1, qi - 1)
             query     == IF qi = 0 THEN <<>> ELSE From(rest, qi + 1)
             hasHost   == Len(hier) >= 2 /\ hier[1] = "//" /\ hier[2] # "/"
             host      == IF hasHost THEN hier[2] ELSE ""
             path      == IF hasHost THEN From(hier, 3)
                          ELSE IF hier # <<>> /\ hier[1] = "//" THEN From(hier, 2)
                          ELSE hier
         IN  IF host = BadEscape \/ \E i \in DOMAIN path : path[i] = BadEscape
             THEN [NoURL EXCEPT !.err = "invalid URL escape"]
             ELSE [err |-> "nil", scheme |-> IF hasScheme THEN raw[1] ELSE "",
                   host |-> host, path |-> path, rawQuery |-> query]

\* URL.String
urlString(u) ==
    (IF u.scheme # "" THEN <<u.scheme, ":">> ELSE <<>>)
    \o (IF (u.scheme # "" \/ u.host # "") /\ (u.host # "" \/ u.path # <<>>)
        THEN <<"//">> ELSE <<>>)
    \o (IF u.host # "" THEN <<u.host>> ELSE <<>>)
    \o (IF u.path # <<>> /\ u.path[1] # "/" /\ u.host # "" THEN <<"/">> ELSE <<>>)
    \o u.path
    \o (IF u.rawQuery # <<>> THEN <<"?">> \o u.rawQuery ELSE <<>>)

\* resolvePath for paths without "." and ".." segments: a reference that does
\* not begin with "/" replaces what follows the last "/" of the base, and the
\* result begins with "/"
resolvePath(base, ref) ==
    LET full == IF ref = <<>> THEN base
                ELSE IF ref[1] # "/" THEN SubSeq(base, 1, LastIndex(base, "/")) \o ref
                ELSE ref
    IN  IF full = <<>> THEN <<>>
        ELSE IF full[1] = "/" THEN full ELSE <<"/">> \o full

\* URL.ResolveReference
ResolveReference(u, ref) ==
    IF ref.scheme # "" \/ ref.host # ""
    THEN [ref EXCEPT !.scheme = IF ref.scheme = "" THEN u.scheme ELSE @,
                     !.path = resolvePath(ref.path, <<>>)]
    ELSE [err      |-> "nil",
          scheme   |-> u.scheme,
          host     |-> u.host,
          path     |-> resolvePath(u.path, ref.path),
          rawQuery |-> IF ref.path = <<>> /\ ref.rawQuery = <<>> THEN u.rawQuery
                       ELSE ref.rawQuery]

----------------------------------------------------------------------------
(* Query values and the request: sling.go 417-480 *)

\* the query keys in use, in the sorted order Values.Encode writes them
QueryKeyOrder == <<"a", "b", "count">>

QueryKeys == {QueryKeyOrder[i] : i \in DOMAIN QueryKeyOrder}

NoValues == [k \in QueryKeys |-> <<>>]

\* The query sources a caller hands to QueryValues and QueryStruct, and what
\* each holds when it is handed over; goquery.Values gives count=5 for
\* &Params{Count: 5}.
QuerySources ==
    {"url.Values{a:[1]}", "url.Values{a:[2]}", "url.Values{a:[2 1],b:[3]}", "&Params{Count:5}"}

SourceValues(q) ==
    CASE q = "url.Values{a:[1]}"         -> [NoValues EXCEPT !["a"] = <<"1">>]
      [] q = "url.Values{a:[2]}"         -> [NoValues EXCEPT !["a"] = <<"2">>]
      [] q = "url.Values{a:[2 1],b:[3]}" -> [NoValues EXCEPT !["a"] = <<"2", "1">>,
                                                              !["b"] = <<"3">>]
      [] q = "&Params{Count:5}"          -> [NoValues EXCEPT !["count"] = <<"5">>]

\* url.Values.Set in place of Add
valuesSet(vals, key, value) == [vals EXCEPT ![key] = <<value>>]

\* url.Values.Add
valuesAdd(vals, key, value) == [vals EXCEPT ![key] = Append(@, value)]

\* url.ParseQuery: the pairs between "&", each key=value or a key alone
RECURSIVE ParseQuery(_)
ParseQuery(query) ==
    IF query = <<>> THEN [err |-> "nil", values |-> NoValues]
    ELSE LET ai   == FirstIndex(query, "&")
             pair == IF ai = 0 THEN query ELSE SubSeq(query, 1, ai - 1)
             rest == IF ai = 0 THEN <<>> ELSE From(query, ai + 1)
             r    == ParseQuery(rest)
         IN  IF pair = <<>> THEN r
             ELSE IF pair[1] = BadEscape \/ pair[Len(pair)] = BadEscape
             THEN [r EXCEPT !.err = "invalid URL escape"]
             ELSE [r EXCEPT !.values[pair[1]] =
                       <<IF Len(pair) >= 3 THEN pair[3] ELSE "">> \o @]

RECURSIVE EncodeKey(_, _)
EncodeKey(key, values) ==
    IF values = <<>> THEN <<>>
    ELSE <<"&", key, "=", Head(values)>> \o EncodeKey(key, Tail(values))

RECURSIVE EncodeFrom(_, _)
EncodeFrom(vals, i) ==
    IF i > Len(QueryKeyOrder) THEN <<>>
    ELSE EncodeKey(QueryKeyOrder[i], vals[QueryKeyOrder[i]]) \o EncodeFrom(vals, i + 1)

\* url.Values.Encode: key=value pairs joined by "&", sorted by key
Encode(vals) == LET t == EncodeFrom(vals, 1) IN IF t = <<>> THEN <<>> ELSE Tail(t)

\* the orders in which range visits the keys of a map
KeyOrders ==
    {o \in [1..Len(QueryKeyOrder) -> QueryKeys] :
        \A i, j \in DOMAIN o : i # j => o[i] # o[j]}

RECURSIVE addValues(_, _, _)
\* addQueryStructs 462-464
addValues(vals, key, values) ==
    IF values = <<>> THEN vals
    ELSE addValues(valuesAdd(vals, key, Head(values)), key, Tail(values))

RECURSIVE addSource(_, _, _)
\* addQueryStructs 461-465
addSource(vals, queryValues, order) ==
    IF order = <<>> THEN vals
    ELSE addSource(addValues(vals, Head(order), queryValues[Head(order)]),
                   queryValues, Tail(order))

RECURSIVE addSources(_, _, _, _)
\* addQueryStructs 452-466
addSources(vals, queryStructs, held, order) ==
    IF queryStructs = <<>> THEN vals
    ELSE addSources(addSource(vals, held[Head(queryStructs)], order),
                    Tail(queryStructs), held, order)

\* addQueryStructs: the new reqURL.RawQuery, and the sources as it leaves them
addQueryStructs(reqURL, queryStructs, held, order) ==
    LET parsed == ParseQuery(reqURL.rawQuery)
    IN  IF parsed.err # "nil"
        THEN [err |-> parsed.err, rawQuery |-> reqURL.rawQuery, held |-> held]
        ELSE [err      |-> "nil",
              rawQuery |-> Encode(addSources(parsed.values, queryStructs, held, order)),
              held     |-> held]

----------------------------------------------------------------------------
(* The idle values of the Sling variables *)

\* no mutator call made yet
NoLastCall == [sling |-> "none", steps |-> <<>>, q |-> "nil", provider |-> "keep"]

\* no Base, Path, Method, method setter or Request() call made yet
NoUrlCall == [name |-> "none", sling |-> "none", path |-> <<>>,
              baseErr |-> FALSE, pathErr |-> FALSE, at |-> -1]

RequestIdle ==
    /\ queryHeld = [q \in QuerySources |-> SourceValues(q)]
    /\ reqs = <<>>
    /\ urlCall = NoUrlCall

BuilderIdle ==
    /\ RequestIdle
    /\ lastCall = NoLastCall
    /\ slings = [b \in SlingNames |-> NoSling]
    /\ heap = <<>>
    /\ ops = 0
    /\ expected = [b \in SlingNames |-> NoSnap]
    /\ cloneOf = [b \in SlingNames |-> "none"]
    /\ parentSnap = [b \in SlingNames |-> NoSnap]
    /\ exclusive = [b \in SlingNames |-> FALSE]

----------------------------------------------------------------------------
(* Inputs of the dispatch model *)

Statuses == {199, 200, 201, 204, 299, 300, 404, 500}

BodyLens == {0, 1, 50, 100, 101, 150}

\* positions at which the body stream may fail with a read error
FailPoints == {0, 50, 101}

NoFail == -1

NoResp == [status |-> 0, contentLength |-> 0, bodyLen |-> 0, failAt |-> NoFail, nil |-> TRUE]

Min(a, b) == IF a <= b THEN a ELSE b

\* The responses a transport can hand back: the declared length is unknown (-1)
\* or the number of bytes the body holds.
Responses ==
    { [status |-> st, contentLength |-> cl, bodyLen |-> n, failAt |-> f, nil |-> FALSE] :
        st \in Statuses, cl \in {-1} \cup BodyLens, n \in BodyLens,
        f \in {NoFail} \cup FailPoints }

TransportResponses ==
    { r \in Responses : /\ r.contentLength \in {-1, r.bodyLen}
                        /\ r.failAt <= r.bodyLen }

----------------------------------------------------------------------------
(* resp.Body as an io.Reader *)

\* One loop of Read calls asking for `want` bytes (want = -1: until the stream
\* ends).  Gives the bytes delivered and how the loop ended: "full" (the
\* wanted bytes arrived), "eof" or "err".
ReadLoop(r, pos, want) ==
    LET limit == IF r.failAt # NoFail /\ r.failAt >= pos THEN r.failAt ELSE r.bodyLen
        avail == limit - pos
        n     == IF want >= 0 THEN Min(want, avail) ELSE avail
    IN  [n   |-> n,
         end |-> IF want >= 0 /\ n = want THEN "full"
                 ELSE IF r.failAt # NoFail /\ pos + n = r.failAt THEN "err"
                 ELSE "eof"]

LogOf(rd) == IF rd.end = "full" THEN <<>> ELSE <<rd.end>>

----------------------------------------------------------------------------
(* Pure functions of sling.go *)

isSuccessfulLow(code) == 200 < code /\ code <= 299

isSuccessful(code) == 200 <= code /\ code <= 299

\* io.ReadFull(r, buf) with len(buf) = size: nil when the buffer is full,
\* io.EOF when the stream ended before any byte, io.ErrUnexpectedEOF when it
\* ended short, the stream's own error when it failed short.
ReadFull(r, pos, size) ==
    LET rd == ReadLoop(r, pos, size)
    IN  [n   |-> rd.n,
         end |-> rd.end,
         err |-> IF rd.end = "full" THEN "nil"
                 ELSE IF rd.end = "err" THEN "read"
                 ELSE IF rd.n = 0 THEN "EOF"
                 ELSE "ErrUnexpectedEOF"]

\* An error value: its kind, the status code it carries, and the excerpt of
\* the body it carries (len bytes from offset `from`, then the truncation
\* marker iff truncated).
Err(kind, status, len, truncated) ==
    [kind |-> kind, status |-> status, from |-> 0, len |-> len, truncated |-> truncated]

NoErr == Err("nil", 0, 0, FALSE)

readWithCapOffByOne(r, pos) ==
    LET rf == ReadFull(r, pos, maxBodySize + 1)
    IN  IF rf.err # "nil" /\ rf.err # "ErrUnexpectedEOF"
        THEN [rf |-> rf, err |-> rf.err, len |-> 0, truncated |-> FALSE]
        ELSE IF rf.n = 0
        THEN [rf |-> rf, err |-> "noContent", len |-> 0, truncated |-> FALSE]
        ELSE IF rf.n < maxBodySize
        THEN [rf |-> rf, err |-> "nil", len |-> rf.n, truncated |-> FALSE]
        ELSE [rf |-> rf, err |-> "nil", len |-> maxBodySize, truncated |-> TRUE]

\* readWithCap reads one byte past maxBodySize to tell a body of exactly
\* maxBodySize bytes from a longer one.  len/truncated describe the returned
\* string: the first len bytes read, followed by " (truncated)" iff truncated.
readWithCap(r, pos) ==
    LET rf == ReadFull(r, pos, maxBodySize + 1)
    IN  IF rf.err # "nil" /\ rf.err # "ErrUnexpectedEOF"
        THEN [rf |-> rf, err |-> rf.err, len |-> 0, truncated |-> FALSE]
        ELSE IF rf.n = 0
        THEN [rf |-> rf, err |-> "noContent", len |-> 0, truncated |-> FALSE]
        ELSE IF rf.n <= maxBodySize
        THEN [rf |-> rf, err |-> "nil", len |-> rf.n, truncated |-> FALSE]
        ELSE [rf |-> rf, err |-> "nil", len |-> maxBodySize, truncated |-> TRUE]

\* jsonDecoder.Decode: io.ReadAll(resp.Body), then json.Unmarshal, whose
\* outcome depends on the bytes (parses).  A failure of either is returned
\* through newError.
jsonDecode(r, pos, parses) ==
    LET rd == ReadLoop(r, pos, -1)
    IN  [rd  |-> rd,
         err |-> IF rd.end = "err" \/ ~parses
                 THEN Err("decode", r.status, 0, FALSE) ELSE NoErr]

\* decodeResponse: a success status decodes into successV when it is non-nil;
\* any other status decodes into failureV when it is non-nil, and otherwise
\* makes an error from the status code and readWithCap's excerpt of the body.
decodeResponse(r, pos, sV, fV, parses) ==
    IF isSuccessful(r.status)
    THEN IF sV
         THEN LET d == jsonDecode(r, pos, parses)
              IN  [calls |-> <<"success">>, n |-> d.rd.n, log |-> LogOf(d.rd),
                   capRead |-> -1, err |-> d.err]
         ELSE [calls |-> <<>>, n |-> 0, log |-> <<>>, capRead |-> -1, err |-> NoErr]
    ELSE IF fV
         THEN LET d == jsonDecode(r, pos, parses)
              IN  [calls |-> <<"failure">>, n |-> d.rd.n, log |-> LogOf(d.rd),
                   capRead |-> -1, err |-> d.err]
         ELSE LET c == readWithCap(r, pos)
              IN  [calls |-> <<>>, n |-> c.rf.n,
                   log |-> IF c.rf.end = "full" THEN <<>> ELSE <<c.rf.end>>,
                   capRead |-> c.rf.n,
                   err |-> IF c.err # "nil"
                           THEN Err("couldNotGetBody", r.status, 0, FALSE)
                           ELSE [Err("gotBody", r.status, c.len, c.truncated)
                                   EXCEPT !.from = pos]]

\* newResponse copies the fields of resp; resp == nil makes the first field
\* access a nil dereference.
newResponse(r) == IF r.nil THEN "panic" ELSE "summary"

isNoContentWrongCode(r) == r.status = StatusNoContent + 1

\* doDecode 580: don't try to decode on 204s
isNoContent(r) == r.status = StatusNoContent

emptyBodyIsErrorAlways(r, fV) == ~isSuccessful(r.status)

\* doDecode 585-591: what a declared length of 0 returns
emptyBodyIsError(r, fV) == ~fV /\ ~isSuccessful(r.status)

----------------------------------------------------------------------------
(* One Receive call *)

NoCall == [op |-> "none", n |-> 0, under |-> "nil", err |-> "nil", fired |-> FALSE,
           endErr |-> "nil"]

TraceIdle ==
    /\ tImpl = "tracer.go"
    /\ tRemaining = 0
    /\ tClosed = FALSE
    /\ hasEnded = FALSE
    /\ endTraceCalls = 0
    /\ tCalls = 0
    /\ tLast = NoCall
    /\ eofReturned = FALSE
    /\ closeReturned = FALSE

DispatchIdle ==
    /\ pc = "idle"
    /\ successV = FALSE
    /\ failureV = FALSE
    /\ doErr = "none"
    /\ ctxCause = "none"
    /\ resp = NoResp
    /\ body = 0
    /\ bodyLog = <<>>
    /\ decodeCalls = <<>>
    /\ capRead = -1
    /\ retResp = "nil"
    /\ retErr = NoErr

InitDispatch ==
    /\ TraceIdle
    /\ BuilderIdle
    /\ pc = "start"
    /\ successV \in BOOLEAN
    /\ failureV \in BOOLEAN
    /\ doErr = "none"
    /\ ctxCause \in {"none", "deadline"}
    /\ resp = NoResp
    /\ body = 0
    /\ bodyLog = <<>>
    /\ decodeCalls = <<>>
    /\ capRead = -1
    /\ retResp = "nil"
    /\ retErr = NoErr

\* ReceiveWithContext 520-523: requestWithContext fails (URL, query or body
\* encoding) and the call returns (nil, err) without sending
RequestFails ==
    /\ pc = "start"
    /\ pc' = "returned"
    /\ retResp' = "nil"
    /\ retErr' = Err("request", 0, 0, FALSE)
    /\ UNCHANGED <<successV, failureV, doErr, ctxCause, resp, body, bodyLog,
                   decodeCalls, capRead>>

RequestBuilt ==
    /\ pc = "start"
    /\ pc' = "built"
    /\ UNCHANGED <<successV, failureV, doErr, ctxCause, resp, body, bodyLog,
                   decodeCalls, capRead, retResp, retErr>>

\* do 545-557 with a transport that returns (nil, err), then doDecode 567-569
DoFails ==
    /\ pc = "built"
    /\ \E e \in {"net", "canceled"} :
         LET err == IF e = "canceled" /\ ctxCause # "none" THEN ctxCause ELSE e
             r   == newResponse(NoResp)
         IN  /\ doErr' = err
             /\ resp' = NoResp
             /\ IF r = "panic"
                THEN /\ pc' = "panicked"
                     /\ UNCHANGED <<retResp, retErr>>
                ELSE /\ pc' = "returned"
                     /\ retResp' = r
                     /\ retErr' = Err("transport", 0, 0, FALSE)
    /\ UNCHANGED <<successV, failureV, ctxCause, body, bodyLog, decodeCalls, capRead>>

\* do 545-557 with a transport that returns (resp, nil)
DoResponds ==
    /\ pc = "built"
    /\ \E r \in TransportResponses : resp' = r
    /\ pc' = "sent"
    /\ UNCHANGED <<successV, failureV, doErr, ctxCause, body, bodyLog,
                   decodeCalls, capRead, retResp, retErr>>

\* doDecode 579-597: the body of the function after the two defers
Decide ==
    /\ pc = "sent"
    /\ pc' = "deferDrain"
    /\ retResp' = newResponse(resp)
    /\ IF isNoContent(resp)
       THEN /\ retErr' = NoErr
            /\ UNCHANGED <<body, bodyLog, decodeCalls, capRead>>
       ELSE IF resp.contentLength = 0
       THEN /\ retErr' = IF emptyBodyIsError(resp, failureV)
                         THEN Err("noBody", resp.status, 0, FALSE) ELSE NoErr
            /\ UNCHANGED <<body, bodyLog, decodeCalls, capRead>>
       ELSE IF successV \/ failureV
       THEN \E parses \in BOOLEAN :
              LET d == decodeResponse(resp, body, successV, failureV, parses)
              IN  /\ retErr' = d.err
                  /\ body' = body + d.n
                  /\ bodyLog' = bodyLog \o d.log
                  /\ decodeCalls' = decodeCalls \o d.calls
                  /\ capRead' = d.capRead
       ELSE /\ retErr' = NoErr
            /\ UNCHANGED <<body, bodyLog, decodeCalls, capRead>>
    /\ UNCHANGED <<successV, failureV, doErr, ctxCause, resp>>

\* doDecode 577: defer io.Copy(io.Discard, resp.Body), run first on return
DeferredDrainSkipped ==
    /\ pc = "deferDrain"
    /\ pc' = "deferClose"
    /\ UNCHANGED <<successV, failureV, doErr, ctxCause, resp, body, bodyLog,
                   decodeCalls, capRead, retResp, retErr>>

DeferredDrain ==
    /\ pc = "deferDrain"
    /\ pc' = "deferClose"
    /\ LET rd == ReadLoop(resp, body, -1)
       IN  /\ body' = body + rd.n
           /\ bodyLog' = bodyLog \o LogOf(rd)
    /\ UNCHANGED <<successV, failureV, doErr, ctxCause, resp, decodeCalls,
                   capRead, retResp, retErr>>

\* doDecode 571: defer resp.Body.Close(), run last on return
DeferredClose ==
    /\ pc = "deferClose"
    /\ pc' = "returned"
    /\ bodyLog' = Append(bodyLog, "close")
    /\ UNCHANGED <<successV, failureV, doErr, ctxCause, resp, body, decodeCalls,
                   capRead, retResp, retErr>>

NextDispatch ==
    /\ \/ RequestFails
       \/ RequestBuilt
       \/ DoFails
       \/ DoResponds
       \/ Decide
       \/ DeferredDrain
       \/ DeferredClose
    /\ UNCHANGED <<traceVars, builderVars, requestVars>>

SpecDispatch == InitDispatch /\ [][NextDispatch]_vars

----------------------------------------------------------------------------
(* One Do call: sling.go 527-543 *)

InitDo ==
    /\ TraceIdle
    /\ BuilderIdle
    /\ pc = "start"
    /\ successV = FALSE
    /\ failureV = FALSE
    /\ doErr = "none"
    /\ ctxCause \in {"none", "deadline"}
    /\ resp = NoResp
    /\ body = 0
    /\ bodyLog = <<>>
    /\ decodeCalls = <<>>
    /\ capRead = -1
    /\ retResp = "nil"
    /\ retErr = NoErr

\* Do 528-531: requestWithContext fails, Do returns (nil, err)
DoRequestFails ==
    /\ pc = "start"
    /\ pc' = "returned"
    /\ retResp' = "nil"
    /\ retErr' = Err("request", 0, 0, FALSE)
    /\ UNCHANGED <<successV, failureV, doErr, ctxCause, resp, body, bodyLog,
                   decodeCalls, capRead>>

DoRequestBuilt ==
    /\ pc = "start"
    /\ pc' = "built"
    /\ UNCHANGED <<successV, failureV, doErr, ctxCause, resp, body, bodyLog,
                   decodeCalls, capRead, retResp, retErr>>

\* Do 533-536 with do 545-557 and a transport that returns (nil, err)
DoSendFails ==
    /\ pc = "built"
    /\ \E e \in {"net", "canceled"} :
         doErr' = IF e = "canceled" /\ ctxCause # "none" THEN ctxCause ELSE e
    /\ resp' = NoResp
    /\ pc' = "returned"
    /\ retResp' = "nil"
    /\ retErr' = Err("transport", 0, 0, FALSE)
    /\ UNCHANGED <<successV, failureV, ctxCause, body, bodyLog, decodeCalls, capRead>>

\* Do 533 with a transport that returns (resp, nil)
DoSendResponds ==
    /\ pc = "built"
    /\ \E r \in TransportResponses : resp' = r
    /\ pc' = "sent"
    /\ UNCHANGED <<successV, failureV, doErr, ctxCause, body, bodyLog,
                   decodeCalls, capRead, retResp, retErr>>

\* the status check with 300 taken for a success
DoCheckStatusInclusive ==
    /\ pc = "sent"
    /\ pc' = "returned"
    /\ retResp' = "raw"
    /\ retErr' = IF resp.status < 200 \/ resp.status > 300
                 THEN Err("status", resp.status, 0, FALSE) ELSE NoErr
    /\ UNCHANGED <<successV, failureV, doErr, ctxCause, resp, body, bodyLog,
                   decodeCalls, capRead>>

\* Do 538-542: resp.StatusCode < 200 || resp.StatusCode >= 300
DoCheckStatus ==
    /\ pc = "sent"
    /\ pc' = "returned"
    /\ retResp' = "raw"
    /\ retErr' = IF resp.status < 200 \/ resp.status >= 300
                 THEN Err("status", resp.status, 0, FALSE) ELSE NoErr
    /\ UNCHANGED <<successV, failureV, doErr, ctxCause, resp, body, bodyLog,
                   decodeCalls, capRead>>

NextDo ==
    /\ \/ DoRequestFails
       \/ DoRequestBuilt
       \/ DoSendFails
       \/ DoSendResponds
       \/ DoCheckStatus
    /\ UNCHANGED <<traceVars, builderVars, requestVars>>

SpecDo == InitDo /\ [][NextDo]_vars

----------------------------------------------------------------------------
(* One traced body: tracer.go, and the second definition at sling.go 654-698 *)

MaxTraceBody == 2

MaxCalls == 4

TracerImpls == {"tracer.go", "sling.go"}

\* What one Read of the wrapped stream can give: data, data together with
\* io.EOF on the last bytes, io.EOF alone at the end, or a read error.
UnderlyingReads ==
    IF tClosed THEN {[n |-> 0, err |-> "read"]}
    ELSE {[n |-> k, err |-> "nil"] : k \in 1..tRemaining}
         \cup {[n |-> tRemaining, err |-> "EOF"]}
         \cup {[n |-> 0, err |-> "read"]}

\* What Close of the wrapped stream can give
UnderlyingCloses == {"nil", "close"}

\* endTrace without its hasEnded guard
endTraceUnguarded(fails) ==
    [hasEnded |-> TRUE, calls |-> endTraceCalls + 1, fired |-> TRUE,
     err |-> IF fails THEN "endTrace" ELSE "nil"]

\* endTrace: the one-shot guard around tracer.EndTrace
endTrace(fails) ==
    IF hasEnded
    THEN [hasEnded |-> TRUE, calls |-> endTraceCalls, fired |-> FALSE, err |-> "nil"]
    ELSE [hasEnded |-> TRUE, calls |-> endTraceCalls + 1, fired |-> TRUE,
          err |-> IF fails THEN "endTrace" ELSE "nil"]

NoTrace == [hasEnded |-> hasEnded, calls |-> endTraceCalls, fired |-> FALSE, err |-> "nil"]

InitTrace ==
    /\ DispatchIdle
    /\ BuilderIdle
    /\ tImpl \in TracerImpls
    /\ tRemaining \in 1..MaxTraceBody
    /\ tClosed = FALSE
    /\ hasEnded = FALSE
    /\ endTraceCalls = 0
    /\ tCalls = 0
    /\ tLast = NoCall
    /\ eofReturned = FALSE
    /\ closeReturned = FALSE

\* the part of a call common to Read and Close
Called(op, n, under, err, t) ==
    /\ tCalls' = tCalls + 1
    /\ hasEnded' = t.hasEnded
    /\ endTraceCalls' = t.calls
    /\ tLast' = [op |-> op, n |-> n, under |-> under, err |-> err, fired |-> t.fired,
                 endErr |-> t.err]
    /\ UNCHANGED <<tImpl, dispatchVars, builderVars, requestVars>>

\* tracer.go 21-31
TracedRead ==
    /\ tImpl = "tracer.go"
    /\ tCalls < MaxCalls
    /\ \E o \in UnderlyingReads, fails \in BOOLEAN :
         LET t == IF o.err = "EOF" THEN endTrace(fails) ELSE NoTrace
         IN  /\ tRemaining' = tRemaining - o.n
             /\ eofReturned' = (eofReturned \/ o.err = "EOF")
             /\ IF o.err = "EOF" /\ t.err # "nil"
                THEN Called("Read", 0, o.err, "wrapped endTrace", t)
                ELSE Called("Read", o.n, o.err, o.err, t)
    /\ UNCHANGED <<tClosed, closeReturned>>

\* Close that returns the wrapped stream's result whatever EndTrace returned
TracedCloseSwallows ==
    /\ tImpl = "tracer.go"
    /\ tCalls < MaxCalls
    /\ \E e \in UnderlyingCloses, fails \in BOOLEAN :
         LET t == IF e = "nil" THEN endTrace(fails) ELSE NoTrace
         IN  /\ tClosed' = (tClosed \/ e = "nil")
             /\ Called("Close", 0, e, e, t)
    /\ closeReturned' = TRUE
    /\ UNCHANGED <<tRemaining, eofReturned>>

\* tracer.go 33-43
TracedClose ==
    /\ tImpl = "tracer.go"
    /\ tCalls < MaxCalls
    /\ \E e \in UnderlyingCloses, fails \in BOOLEAN :
         LET t == IF e = "nil" THEN endTrace(fails) ELSE NoTrace
         IN  /\ tClosed' = (tClosed \/ e = "nil")
             /\ IF e = "nil" /\ t.err # "nil"
                THEN Called("Close", 0, e, "wrapped endTrace", t)
                ELSE Called("Close", 0, e, e, t)
    /\ closeReturned' = TRUE
    /\ UNCHANGED <<tRemaining, eofReturned>>

\* sling.go 673-680: Tracer.EndTrace has no result here
TracedReadCopy ==
    /\ tImpl = "sling.go"
    /\ tCalls < MaxCalls
    /\ \E o \in UnderlyingReads :
         LET t == IF o.err = "EOF" THEN endTrace(FALSE) ELSE NoTrace
         IN  /\ tRemaining' = tRemaining - o.n
             /\ eofReturned' = (eofReturned \/ o.err = "EOF")
             /\ Called("Read", o.n, o.err, o.err, t)
    /\ UNCHANGED <<tClosed, closeReturned>>

\* sling.go 682-689: the trace is ended when the wrapped Close fails
TracedCloseCopy ==
    /\ tImpl = "sling.go"
    /\ tCalls < MaxCalls
    /\ \E e \in UnderlyingCloses :
         LET t == IF e # "nil" THEN endTrace(FALSE) ELSE NoTrace
         IN  /\ tClosed' = (tClosed \/ e = "nil")
             /\ Called("Close", 0, e, e, t)
    /\ closeReturned' = TRUE
    /\ UNCHANGED <<tRemaining, eofReturned>>

NextTrace ==
    \/ TracedRead
    \/ TracedClose
    \/ TracedReadCopy
    \/ TracedCloseCopy

SpecTrace == InitTrace /\ [][NextTrace]_vars

----------------------------------------------------------------------------
(* Sling.New and the mutators of a Sling *)

\* The base Sling is made by sling.New(), alone or followed by one
\* AddHeaders call: sling.New().AddHeaders(headers)
InitBuilder ==
    /\ DispatchIdle
    /\ TraceIdle
    /\ RequestIdle
    /\ \E headers \in {<<>>} \cup HeaderArgs :
         LET st == RunSteps([h |-> NewSling.header, heap |-> <<>>],
                            AddHeadersSteps(headers))
             sl == [b \in SlingNames |->
                      IF b = SlingOrder[1] THEN [NewSling EXCEPT !.header = st.h]
                      ELSE NoSling]
         IN  /\ slings = NormSlings(sl)
             /\ heap = NormHeap(sl, st.heap)
    /\ ops = 0
    /\ expected = [b \in SlingNames |-> Observed(slings, heap, b)]
    /\ cloneOf = [b \in SlingNames |-> "none"]
    /\ parentSnap = [b \in SlingNames |-> NoSnap]
    /\ exclusive = [b \in SlingNames |-> FALSE]
    /\ lastCall = NoLastCall

\* New 160-163: headerCopy[k] = v copies each key's slice, not its elements
copyHeader(h) == [k \in HeaderKeys |-> h[k]]

FreeSlings == {i \in DOMAIN SlingOrder : ~slings[SlingOrder[i]].alive}

\* func (s *Sling) New() *Sling
New ==
    /\ FreeSlings # {}
    /\ \E b \in SlingNames :
         /\ slings[b].alive
         /\ LET c  == SlingOrder[CHOOSE i \in FreeSlings : \A j \in FreeSlings : i <= j]
                qc == GoCopy(heap, slings[b].queryStructs)
                sl == [slings EXCEPT ![c] =
                          [alive           |-> TRUE,
                           httpClient      |-> slings[b].httpClient,
                           method          |-> slings[b].method,
                           rawURL          |-> slings[b].rawURL,
                           header          |-> copyHeader(slings[b].header),
                           queryStructs    |-> qc.slice,
                           bodyProvider    |-> slings[b].bodyProvider,
                           responseDecoder |-> slings[b].responseDecoder]]
            IN  /\ slings' = NormSlings(sl)
                /\ heap' = NormHeap(sl, qc.heap)
                /\ expected' = [expected EXCEPT ![c] = Observed(slings, heap, b)]
                /\ cloneOf' = [cloneOf EXCEPT ![c] = b]
                /\ parentSnap' = [parentSnap EXCEPT ![c] = Observed(slings, heap, b)]
                /\ exclusive' = [exclusive EXCEPT ![c] = TRUE]
    /\ lastCall' = NoLastCall
    /\ UNCHANGED <<ops, dispatchVars, traceVars, requestVars>>

\* One mutator call on Sling b: its calls on s.header (steps), the query
\* source it appends (q, "nil" for none), the body provider it sets
\* (provider, "keep" for none).
Mutate(b, steps, q, provider) ==
    /\ slings[b].alive
    /\ \E h \in {RunSteps([h |-> slings[b].header, heap |-> heap], steps)} :
       \E qa \in {IF q = "nil"
                  THEN [heap |-> h.heap, slice |-> slings[b].queryStructs]
                  ELSE GoAppend(h.heap, slings[b].queryStructs, q)} :
       \E sl \in {[slings EXCEPT ![b].header = h.h,
                                  ![b].queryStructs = qa.slice,
                                  ![b].bodyProvider = IF provider = "keep" THEN @
                                                      ELSE provider]} :
         /\ \A k \in HeaderKeys : h.h[k].len <= MaxVals
         /\ qa.slice.len <= MaxQuery
         /\ slings' = NormSlings(sl)
         /\ heap' = NormHeap(sl, qa.heap)
    /\ ops' = ops + 1
    /\ lastCall' = [sling |-> b, steps |-> steps, q |-> q, provider |-> provider]
    /\ expected' = [expected EXCEPT ![b] =
          [header       |-> RunStepsByValue(@.header, steps),
           queryStructs |-> IF q = "nil" THEN @.queryStructs
                            ELSE Append(@.queryStructs, q)]]
    /\ exclusive' = [c \in SlingNames |-> exclusive[c] /\ c = b]
    /\ parentSnap' = [c \in SlingNames |->
                        IF exclusive[c] /\ c = b THEN parentSnap[c] ELSE NoSnap]
    /\ UNCHANGED <<cloneOf, dispatchVars, traceVars, requestVars>>

\* func (s *Sling) Add(key, value string) *Sling
Add ==
    /\ ops < MaxOps
    /\ \E b \in SlingNames, key \in RawKeys, value \in HeaderValues :
           Mutate(b, <<HAdd(key, value)>>, "nil", "keep")

\* func (s *Sling) Set(key, value string) *Sling
Set ==
    /\ ops < MaxOps
    /\ \E b \in SlingNames, key \in RawKeys, value \in HeaderValues :
           Mutate(b, <<HSet(key, value)>>, "nil", "keep")

\* func (s *Sling) AddHeaders(headers http.Header) *Sling
AddHeaders ==
    /\ ops < MaxOps
    /\ \E b \in SlingNames, headers \in HeaderArgs :
           Mutate(b, AddHeadersSteps(headers), "nil", "keep")

\* func (s *Sling) SetHeaders(headers http.Header) *Sling
SetHeaders ==
    /\ ops < MaxOps
    /\ \E b \in SlingNames, headers \in HeaderArgs :
           Mutate(b, SetHeadersSteps(headers), "nil", "keep")

\* func (s *Sling) SetBasicAuth(username, password string) *Sling
SetBasicAuth ==
    /\ ops < MaxOps
    /\ \E b \in SlingNames, c \in Credentials :
           Mutate(b, <<HSet("Authorization", "Basic " \o basicAuth(c.username, c.password))>>,
                  "nil", "keep")

\* BodyProvider that adds the content type to the Content-Type values
BodyProviderAddsContentType(b, provider) ==
    LET ct == ContentType(provider)
    IN  Mutate(b, IF ct # "" THEN <<HAdd(contentType, ct)>> ELSE <<>>, "nil", provider)

\* func (s *Sling) BodyProvider(body BodyProvider) *Sling, body != nil
BodyProvider(b, provider) ==
    LET ct == ContentType(provider)
    IN  Mutate(b, IF ct # "" THEN <<HSet(contentType, ct)>> ELSE <<>>, "nil", provider)

\* a nil argument leaves the Sling as it is
NoOp(b) == Mutate(b, <<>>, "nil", "keep")

\* func (s *Sling) Body(body io.Reader) *Sling
Body ==
    /\ ops < MaxOps
    /\ \E b \in SlingNames, arg \in {"nil", "reader"} :
           IF arg = "nil" THEN NoOp(b) ELSE BodyProvider(b, "raw")

\* func (s *Sling) BodyJSON(bodyJSON interface{}) *Sling
BodyJSON ==
    /\ ops < MaxOps
    /\ \E b \in SlingNames, arg \in {"nil", "payload"} :
           IF arg = "nil" THEN NoOp(b) ELSE BodyProvider(b, "json")

\* func (s *Sling) BodyForm(bodyForm interface{}) *Sling
BodyForm ==
    /\ ops < MaxOps
    /\ \E b \in SlingNames, arg \in {"nil", "payload"} :
           IF arg = "nil" THEN NoOp(b) ELSE BodyProvider(b, "form")

\* func (s *Sling) QueryStruct(queryStruct interface{}) *Sling
QueryStruct ==
    /\ ops < MaxOps
    /\ \E b \in SlingNames, q \in QueryStructArgs : Mutate(b, <<>>, q, "keep")

\* func (s *Sling) QueryValues(values url.Values) *Sling
QueryValues ==
    /\ ops < MaxOps
    /\ \E b \in SlingNames, q \in QueryValuesArgs : Mutate(b, <<>>, q, "keep")

NextBuilder ==
    \/ New
    \/ Add
    \/ Set
    \/ AddHeaders
    \/ SetHeaders
    \/ SetBasicAuth
    \/ Body
    \/ BodyJSON
    \/ BodyForm
    \/ QueryStruct
    \/ QueryValues

SpecBuilder == InitBuilder /\ [][NextBuilder]_vars

----------------------------------------------------------------------------
(* URL, method and Request() of one Sling *)

\* "http://h/", "http://h/p/?a=0", "://h" (no scheme), "http://h/%zz" (bad escape)
RawURLs ==
    { <<"http", ":", "//", "h", "/">>,
      <<"http", ":", "//", "h", "/", "p", "/", "?", "a", "=", "0">>,
      <<":", "//", "h">>,
      <<"http", ":", "//", "h", "/", BadEscape>> }

\* "foo/", "/bar", "c?b=1", "%zz" (bad escape)
PathArgs ==
    { <<"foo", "/">>, <<"/", "bar">>, <<"c", "?", "b", "=", "1">>, <<BadEscape>> }

SetterMethods ==
    {"HEAD", "GET", "POST", "PUT", "PATCH", "DELETE", "OPTIONS", "TRACE", "CONNECT"}

MethodNames == {"PURGE"}

\* the query sources a Sling holds at the start: none, {a:1}, {a:1} then
\* {a:2}, or {a:[2 1], b:3} then &Params{Count: 5}
InitQueries ==
    { <<>>,
      <<"url.Values{a:[1]}">>,
      <<"url.Values{a:[1]}", "url.Values{a:[2]}">>,
      <<"url.Values{a:[2 1],b:[3]}", "&Params{Count:5}">> }

RECURSIVE appendAll(_, _, _)
\* QueryValues / QueryStruct called once for each source of qs
appendAll(hp, sl, qs) ==
    IF qs = <<>> THEN [heap |-> hp, slice |-> sl]
    ELSE LET r == GoAppend(hp, sl, Head(qs))
         IN  appendAll(r.heap, r.slice, Tail(qs))

\* the base Sling is sling.New().Base(rawURL) followed by the QueryValues /
\* QueryStruct calls that hand over the sources of qs
InitRequest ==
    /\ DispatchIdle
    /\ TraceIdle
    /\ RequestIdle
    /\ \E u \in RawURLs, qs \in InitQueries :
         LET q  == appendAll(<<>>, NilSlice, qs)
             sl == [b \in SlingNames |->
                      IF b = SlingOrder[1]
                      THEN [NewSling EXCEPT !.rawURL = u, !.queryStructs = q.slice]
                      ELSE NoSling]
         IN  /\ slings = NormSlings(sl)
             /\ heap = NormHeap(sl, q.heap)
    /\ ops = 0
    /\ expected = [b \in SlingNames |-> Observed(slings, heap, b)]
    /\ cloneOf = [b \in SlingNames |-> "none"]
    /\ parentSnap = [b \in SlingNames |-> NoSnap]
    /\ exclusive = [b \in SlingNames |-> FALSE]
    /\ lastCall = NoLastCall

\* Path that takes the path for the URL when the URL does not parse
PathOfReplacesOnError(s, path) ==
    LET baseURL == urlParse(s.rawURL)
        pathURL == urlParse(path)
    IN  IF baseURL.err = "nil" /\ pathURL.err = "nil"
        THEN [s EXCEPT !.rawURL = urlString(ResolveReference(baseURL, pathURL))]
        ELSE [s EXCEPT !.rawURL = path]

\* func (s *Sling) Path(path string) *Sling: the Sling as Path leaves it
PathOf(s, path) ==
    LET baseURL == urlParse(s.rawURL)
        pathURL == urlParse(path)
    IN  IF baseURL.err = "nil" /\ pathURL.err = "nil"
        THEN [s EXCEPT !.rawURL = urlString(ResolveReference(baseURL, pathURL))]
        ELSE s

\* a URL call on Sling b: the Sling it leaves, and what is recorded of it
UrlCall(b, name, path, s) ==
    /\ slings[b].alive
    /\ slings' = [slings EXCEPT ![b] = s]
    /\ urlCall' = [name |-> name, sling |-> b, path |-> path,
                   baseErr |-> urlParse(slings[b].rawURL).err # "nil",
                   pathErr |-> urlParse(path).err # "nil",
                   at |-> ops]
    /\ ops' = ops + 1
    /\ UNCHANGED <<heap, expected, cloneOf, parentSnap, exclusive, lastCall,
                   queryHeld, reqs, dispatchVars, traceVars>>

\* func (s *Sling) Base(rawURL string) *Sling
Base ==
    /\ ops < MaxOps
    /\ \E b \in SlingNames, rawURL \in RawURLs :
         UrlCall(b, "Base", <<>>, [slings[b] EXCEPT !.rawURL = rawURL])

\* func (s *Sling) Path(path string) *Sling
Path ==
    /\ ops < MaxOps
    /\ \E b \in SlingNames, path \in PathArgs :
         UrlCall(b, "Path", path, PathOf(slings[b], path))

\* func (s *Sling) Method(method string) *Sling
Method ==
    /\ ops < MaxOps
    /\ \E b \in SlingNames, method \in MethodNames :
         UrlCall(b, "Method", <<>>, [slings[b] EXCEPT !.method = method])

\* a method setter that sets the method only when the path parses
MethodSetterNeedsPath ==
    /\ ops < MaxOps
    /\ \E b \in SlingNames, method \in SetterMethods, pathURL \in PathArgs :
         UrlCall(b, method, pathURL,
                 IF urlParse(pathURL).err = "nil"
                 THEN PathOf([slings[b] EXCEPT !.method = method], pathURL)
                 ELSE slings[b])

\* Head, Get, Post, Put, Patch, Delete, Options, Trace, Connect:
\* s.method = "..."; return s.Path(pathURL)
MethodSetter ==
    /\ ops < MaxOps
    /\ \E b \in SlingNames, method \in SetterMethods, pathURL \in PathArgs :
         UrlCall(b, method, pathURL, PathOf([slings[b] EXCEPT !.method = method], pathURL))

NoHeader == [k \in HeaderKeys |-> <<>>]

\* addHeaders: req.Header.Add(key, value) for every value of every key
addHeaders(reqHeader, hp, header) ==
    [k \in HeaderKeys |-> reqHeader[k] \o Vals(hp, header[k])]

NoRequest == [stage |-> "nil", err |-> "nil", method |-> "", url |-> <<>>, header |-> NoHeader]

\* requestWithContext that keeps the merged URL in the Sling
requestWithContextKeepsURL(s, hp, held, order, bodyFails) ==
    LET reqURL == urlParse(s.rawURL)
        q      == addQueryStructs(reqURL, Vals(hp, s.queryStructs), held, order)
        full   == urlString([reqURL EXCEPT !.rawQuery = q.rawQuery])
    IN  IF reqURL.err # "nil"
        THEN [req |-> [NoRequest EXCEPT !.stage = "url.Parse", !.err = reqURL.err],
              sling |-> s, held |-> held]
        ELSE IF q.err # "nil"
        THEN [req |-> [NoRequest EXCEPT !.stage = "addQueryStructs", !.err = q.err],
              sling |-> s, held |-> q.held]
        ELSE IF s.bodyProvider # "nil" /\ bodyFails
        THEN [req |-> [NoRequest EXCEPT !.stage = "Body", !.err = "body"],
              sling |-> s, held |-> q.held]
        ELSE [req |-> [stage  |-> "nil",
                       err    |-> "nil",
                       method |-> IF s.method = "" THEN "GET" ELSE s.method,
                       url    |-> urlString(urlParse(full)),
                       header |-> addHeaders(NoHeader, hp, s.header)],
              sling |-> [s EXCEPT !.rawURL = full], held |-> q.held]

\* requestWithContext: the request or the error, and the Sling and the query
\* sources as the call leaves them.  bodyFails: s.bodyProvider.Body() fails.
requestWithContext(s, hp, held, order, bodyFails) ==
    LET reqURL == urlParse(s.rawURL)
        q      == addQueryStructs(reqURL, Vals(hp, s.queryStructs), held, order)
        full   == urlString([reqURL EXCEPT !.rawQuery = q.rawQuery])
    IN  IF reqURL.err # "nil"
        THEN [req |-> [NoRequest EXCEPT !.stage = "url.Parse", !.err = reqURL.err],
              sling |-> s, held |-> held]
        ELSE IF q.err # "nil"
        THEN [req |-> [NoRequest EXCEPT !.stage = "addQueryStructs", !.err = q.err],
              sling |-> s, held |-> q.held]
        ELSE IF s.bodyProvider # "nil" /\ bodyFails
        THEN [req |-> [NoRequest EXCEPT !.stage = "Body", !.err = "body"],
              sling |-> s, held |-> q.held]
        ELSE [req |-> [stage  |-> "nil",
                       err    |-> "nil",
                       method |-> IF s.method = "" THEN "GET" ELSE s.method,
                       url    |-> urlString(urlParse(full)),
                       header |-> addHeaders(NoHeader, hp, s.header)],
              sling |-> s, held |-> q.held]

\* func (s *Sling) request() (*http.Request, error)
Request ==
    /\ ops < MaxOps
    /\ \E b \in SlingNames, order \in KeyOrders, bodyFails \in BOOLEAN :
         /\ slings[b].alive
         /\ \E r \in {requestWithContext(slings[b], heap, queryHeld, order, bodyFails)} :
              /\ slings' = [slings EXCEPT ![b] = r.sling]
              /\ queryHeld' = r.held
              /\ reqs' = Append(reqs, [id |-> Len(reqs) + 1, at |-> ops, sling |-> b,
                                       after |-> urlCall, result |-> r.req])
         /\ urlCall' = [name |-> "Request", sling |-> b, path |-> <<>>,
                        baseErr |-> FALSE, pathErr |-> FALSE, at |-> ops]
    /\ ops' = ops + 1
    /\ UNCHANGED <<heap, expected, cloneOf, parentSnap, exclusive, lastCall,
                   dispatchVars, traceVars>>

NextRequest ==
    \/ Base
    \/ Path
    \/ Method
    \/ MethodSetter
    \/ Request
    \/ QueryValues
    \/ QueryStruct
    \/ Add
    \/ BodyJSON

SpecRequest == InitRequest /\ [][NextRequest]_vars

----------------------------------------------------------------------------
(* Properties of New() *)

\* C1: after c = B.New(), header and query mutators applied to c alone leave
\* B's headers (every key's value list) and B's query sources exactly as they
\* were when c was made.
C1_CloneLeavesOriginal ==
    \A c \in SlingNames :
        (cloneOf[c] # "none" /\ exclusive[c])
            => Observed(slings, heap, cloneOf[c]) = parentSnap[c]

\* a clone that appended to a key in place, in the array it shares with its
\* origin, and appended a query source
C1_Witness ==
    /\ cloneOf["foo"] = "base"
    /\ exclusive["foo"]
    /\ slings["foo"].header["X-Id"].arr # 0
    /\ slings["foo"].header["X-Id"].arr = slings["base"].header["X-Id"].arr
    /\ slings["foo"].header["X-Id"].len > slings["base"].header["X-Id"].len
    /\ slings["foo"].queryStructs.len > slings["base"].queryStructs.len

\* C2 as stated: whatever the interleaving of mutators on a Sling and on its
\* clones, every Sling shows exactly the headers and query sources its own
\* mutators alone produce from what it started with.
C2_ClonesIndependent ==
    \A b \in SlingNames :
        slings[b].alive => Observed(slings, heap, b) = expected[b]

----------------------------------------------------------------------------
(* Properties of the header and body mutators *)

\* the values the Sling of the last call showed for a key before the call
HeaderBefore(k) == Vals(heap, slings[lastCall'.sling].header[k])

\* the values it shows after the call
HeaderAfter(k) == Vals(heap', slings'[lastCall'.sling].header[k])

\* the last call was Add or Set themselves, with a key spelled in either case
IsAddOrSet(c) ==
    /\ c.sling # "none"
    /\ Len(c.steps) = 1
    /\ c.steps[1].key \in RawKeys
    /\ c.provider = "keep"

\* C14: Set(k, v) leaves exactly the one value v for k whatever k held
\* before, Add(k, v) leaves k's earlier values followed by v, no other key
\* changes, and "x-id" and "X-Id" denote the same header.
C14_HeaderSemantics ==
    [][ IsAddOrSet(lastCall') =>
          /\ lastCall'.steps[1].op = "Set"
                => HeaderAfter("X-Id") = <<lastCall'.steps[1].value>>
          /\ lastCall'.steps[1].op = "Add"
                => HeaderAfter("X-Id") = Append(HeaderBefore("X-Id"), lastCall'.steps[1].value)
          /\ \A k \in HeaderKeys \ {"X-Id"} : HeaderAfter(k) = HeaderBefore(k)
      ]_vars

\* Add("X-Id", "a") and then Add("x-id", "b") on a Sling with no X-Id value
\* left ["a", "b"]
C14_Witness ==
    /\ IsAddOrSet(lastCall)
    /\ lastCall.steps[1] = HAdd("x-id", "b")
    /\ ops = 2
    /\ Vals(heap, slings[lastCall.sling].header["X-Id"]) = <<"a", "b">>

\* C15: a body setter called with a non-nil argument makes its provider the
\* active one; a provider that declares a content type (JSON, form) leaves
\* exactly that one Content-Type value, and a raw Body(reader) leaves the
\* Content-Type values, and every other header, as they were.
C15_BodyContentType ==
    [][ (lastCall'.sling # "none" /\ lastCall'.provider # "keep") =>
          /\ slings'[lastCall'.sling].bodyProvider = lastCall'.provider
          /\ lastCall'.provider = "json" => HeaderAfter(contentType) = <<"application/json">>
          /\ lastCall'.provider = "form"
                => HeaderAfter(contentType) = <<"application/x-www-form-urlencoded">>
          /\ lastCall'.provider = "raw" => HeaderAfter(contentType) = HeaderBefore(contentType)
          /\ \A k \in HeaderKeys \ {contentType} : HeaderAfter(k) = HeaderBefore(k)
      ]_vars

\* BodyJSON(x) then Body(reader): the raw provider is active and the JSON
\* media type is still the Content-Type
C15_Witness ==
    /\ lastCall.sling # "none"
    /\ lastCall.provider = "raw"
    /\ slings[lastCall.sling].bodyProvider = "raw"
    /\ Vals(heap, slings[lastCall.sling].header[contentType]) = <<"application/json">>

----------------------------------------------------------------------------
(* Properties of one Receive call *)

Returned == pc = "returned" /\ ~resp.nil

CloseCount == Cardinality({i \in DOMAIN bodyLog : bodyLog[i] = "close"})

ClosedOnceAtTheEnd ==
    /\ CloseCount = 1
    /\ bodyLog[Len(bodyLog)] = "close"

\* C3 as stated: when the transport returned a response, by the time the call
\* returns the body has been read to end-of-data and then closed, exactly once.
C3_DrainedToEofThenClosed ==
    Returned =>
        /\ ClosedOnceAtTheEnd
        /\ \E i \in DOMAIN bodyLog : bodyLog[i] = "eof"
        /\ body = resp.bodyLen

\* C3 amended: when the transport returned a response, by the time the call
\* returns the body has been read until end-of-data or until a read of the
\* body failed, and then closed, exactly once, with no read after the close;
\* a body whose reads never fail has been read to end-of-data in full.
C3_DrainedThenClosed ==
    Returned =>
        /\ ClosedOnceAtTheEnd
        /\ \E i \in DOMAIN bodyLog : bodyLog[i] \in {"eof", "err"}
        /\ resp.failAt = NoFail =>
              /\ \E i \in DOMAIN bodyLog : bodyLog[i] = "eof"
              /\ body = resp.bodyLen

\* a decode failure on a readable body, drained and closed
C3_Witness ==
    /\ Returned
    /\ retErr.kind = "decode"
    /\ resp.failAt = NoFail
    /\ resp.bodyLen > 0
    /\ bodyLog = <<"eof", "eof", "close">>

\* C4 as stated: once the transport has failed to send the request, the call
\* has returned and its error is the transport's error; it does not end
\* abnormally.
C4_TransportErrorReturned ==
    doErr # "none" => /\ pc = "returned"
                      /\ retErr.kind = "transport"

\* C5 as stated: a status outside [200,299] with a non-empty body goes to the
\* decoder with the failure destination when one was supplied, and otherwise
\* returns an error carrying the status code and a bounded excerpt of the body,
\* whatever the success destination is.
C5_NonSuccessHandled ==
    ( /\ Returned
      /\ resp.status < 200 \/ resp.status > 299
      /\ resp.contentLength # 0
      /\ resp.bodyLen > 0
      /\ resp.failAt = NoFail )
    => IF failureV
       THEN decodeCalls = <<"failure">>
       ELSE /\ retErr.kind = "gotBody"
            /\ retErr.status = resp.status
            /\ retErr.len \in 1..100

\* C6: a status in [200,299] other than 204 with a non-zero content length
\* invokes the decoder exactly once with the success destination iff one was
\* supplied, never with the failure destination, and with a nil success
\* destination returns the response summary and no error.
C6_SuccessDecoding ==
    ( /\ Returned
      /\ resp.status \in 200..299
      /\ resp.status # 204
      /\ resp.contentLength # 0 )
    => /\ decodeCalls = IF successV THEN <<"success">> ELSE <<>>
       /\ ~successV => retErr = NoErr /\ retResp = "summary"

C6_Witness ==
    /\ Returned
    /\ resp.status = 200
    /\ resp.contentLength = 50
    /\ successV
    /\ failureV
    /\ decodeCalls = <<"success">>

\* C7: a response with status 204, or with declared content length 0, never
\* has the decoder invoked, whichever destinations are supplied.
C7_DecodeGating ==
    (~resp.nil /\ (resp.status = 204 \/ resp.contentLength = 0))
    => decodeCalls = <<>>

C7_Witness ==
    /\ Returned
    /\ resp.status = 204
    /\ resp.contentLength = 50
    /\ successV
    /\ failureV
    /\ decodeCalls = <<>>

\* C8: with declared content length 0 the call returns an error exactly when
\* no failure destination was supplied and the status is outside [200,299];
\* otherwise it returns the response summary with no error.
C8_EmptyBody ==
    (Returned /\ resp.contentLength = 0)
    => /\ retErr # NoErr <=> (~failureV /\ (resp.status < 200 \/ resp.status > 299))
       /\ retResp = "summary"

C8_Witness ==
    /\ Returned
    /\ resp.contentLength = 0
    /\ resp.status = 201
    /\ ~failureV
    /\ retErr = NoErr
    /\ retResp = "summary"

\* C9: the synthesized non-success error carries exactly the first min(n,100)
\* bytes of a body of n >= 1 bytes, followed by the truncation marker iff
\* n > 100, and at most 101 bytes were read from the body to build it.
C9_Truncation ==
    retErr.kind = "gotBody"
    => /\ resp.bodyLen >= 1
       /\ retErr.from = 0
       /\ retErr.len = IF resp.bodyLen <= 100 THEN resp.bodyLen ELSE 100
       /\ retErr.truncated <=> resp.bodyLen > 100
       /\ capRead \in 1..101

\* a body of exactly 100 bytes: all 100, no marker
C9_Witness ==
    /\ Returned
    /\ retErr.kind = "gotBody"
    /\ resp.bodyLen = 100
    /\ retErr.len = 100
    /\ ~retErr.truncated
    /\ ~failureV

----------------------------------------------------------------------------
(* Properties of Path, the method setters and Request() *)

\* the query of a URL text: what follows its first "?"
QueryOf(url) == IF FirstIndex(url, "?") = 0 THEN <<>> ELSE From(url, FirstIndex(url, "?") + 1)

RECURSIVE QueryValuesIn(_, _)
\* the values a query text gives for a key, in the order of the text
QueryValuesIn(query, k) ==
    IF Len(query) < 3 THEN <<>>
    ELSE IF query[1] = k /\ query[2] = "="
    THEN <<query[3]>> \o QueryValuesIn(From(query, 4), k)
    ELSE QueryValuesIn(Tail(query), k)

RECURSIVE SourceValuesFor(_, _)
\* the values a sequence of query sources gives for a key, in source order
SourceValuesFor(qs, k) ==
    IF qs = <<>> THEN <<>> ELSE queryHeld[Head(qs)][k] \o SourceValuesFor(Tail(qs), k)

\* the step is a Request() call that built a request
RequestBuilds ==
    /\ Len(reqs') = Len(reqs) + 1
    /\ reqs'[Len(reqs')].result.err = "nil"

\* C13: the query of a request Request() builds holds, for every key, every
\* value of the URL's existing query followed by every value of every query
\* source in source order: nothing is lost, overwritten or deduplicated.
C13_QueryMergeKeepsAll ==
    [][ RequestBuilds =>
          LET e == reqs'[Len(reqs')]
              s == slings[e.sling]
          IN  \A k \in QueryKeys :
                QueryValuesIn(QueryOf(e.result.url), k)
                    = QueryValuesIn(QueryOf(s.rawURL), k)
                      \o SourceValuesFor(Vals(heap, s.queryStructs), k)
      ]_vars

\* QueryValues({a:1}); QueryValues({a:2}) on http://h/p/?a=0 gave a=0&a=1&a=2
C13_Witness ==
    \E i \in DOMAIN reqs :
        /\ reqs[i].result.err = "nil"
        /\ QueryOf(slings[reqs[i].sling].rawURL) = <<"a", "=", "0">>
        /\ QueryValuesIn(QueryOf(reqs[i].result.url), "a") = <<"0", "1", "2">>

\* the call before a Request() was a Path, or a method setter, that did not resolve
AfterFailedPath(e) ==
    /\ e.after.name \in {"Path"} \cup SetterMethods
    /\ e.after.baseErr \/ e.after.pathErr

\* C16 as stated: when Path (directly or through a method setter) did not
\* resolve because the current URL or the path argument does not parse, the
\* next Request() on the Sling returns a URL-parse error.
C16_PathFailureLatched ==
    \A i \in DOMAIN reqs :
        AfterFailedPath(reqs[i]) => reqs[i].result.stage = "url.Parse"

\* C16 amended: when the current URL does not parse, the next Request()
\* returns the URL-parse error; when only the path argument does not parse,
\* the next Request() returns no URL-parse error.
C16_BaseFailureLatched ==
    \A i \in DOMAIN reqs :
        AfterFailedPath(reqs[i]) =>
            (reqs[i].result.stage = "url.Parse" <=> reqs[i].after.baseErr)

\* Request() after a Path on a URL without a scheme returned the parse error
C16_Witness ==
    /\ Len(reqs) = 1
    /\ AfterFailedPath(reqs[1])
    /\ reqs[1].after.baseErr
    /\ reqs[1].result.stage = "url.Parse"
    /\ reqs[1].result.err = "missing protocol scheme"

\* C17: a Path call that does not resolve leaves every field of the Sling,
\* the arrays of its headers and query sources, and the sources themselves as
\* they were; a method setter called with such a path changes the method
\* only; Method(name) does not change the URL.
C17_FailedPathChangesNothing ==
    [][ urlCall'.at = ops =>
          /\ (urlCall'.name \in {"Path"} \cup SetterMethods
                /\ (urlCall'.baseErr \/ urlCall'.pathErr))
              => /\ slings' = [slings EXCEPT ![urlCall'.sling].method =
                                   IF urlCall'.name = "Path" THEN @ ELSE urlCall'.name]
                 /\ heap' = heap
                 /\ queryHeld' = queryHeld
          /\ urlCall'.name = "Method"
              => slings'[urlCall'.sling].rawURL = slings[urlCall'.sling].rawURL
      ]_vars

\* Post("%zz") on a Sling whose URL parses: the method is POST, the URL is
\* the one it had
C17_Witness ==
    /\ urlCall.name = "POST"
    /\ urlCall.pathErr
    /\ ~urlCall.baseErr
    /\ slings[urlCall.sling].method = "POST"
    /\ slings[urlCall.sling].rawURL = <<"http", ":", "//", "h", "/">>
    /\ slings[urlCall.sling].queryStructs.len = 2

\* C19: Request() leaves the Sling, the arrays of its headers and query
\* sources, and the query sources it was given as they were, and a Request()
\* that builds a request right after one that built a request on the same
\* Sling gives another request with the same method, URL, query and headers.
C19_RequestLeavesSling ==
    [][ (urlCall'.at = ops /\ urlCall'.name = "Request") =>
          /\ slings' = slings
          /\ heap' = heap
          /\ queryHeld' = queryHeld
          /\ (/\ RequestBuilds
              /\ reqs # <<>>
              /\ reqs[Len(reqs)].at = ops - 1
              /\ reqs[Len(reqs)].sling = urlCall'.sling
              /\ reqs[Len(reqs)].result.err = "nil")
             => /\ reqs'[Len(reqs')].result = reqs[Len(reqs)].result
                /\ reqs'[Len(reqs')].id # reqs[Len(reqs)].id
      ]_vars

\* two Request() calls in a row on a Sling with a URL query and query sources
C19_Witness ==
    /\ Len(reqs) = 2
    /\ reqs[1].sling = reqs[2].sling
    /\ reqs[2].at = reqs[1].at + 1
    /\ reqs[1].result.err = "nil"
    /\ reqs[2].result.err = "nil"
    /\ QueryValuesIn(QueryOf(reqs[2].result.url), "a") = <<"0", "2", "1">>
    /\ reqs[2].result.url = reqs[1].result.url

----------------------------------------------------------------------------
(* Properties of one Do call *)

\* C18: once Do has sent the request and received a response it returns the
\* raw response, with an error exactly when the status is outside [200,299];
\* the decoder is never invoked and the body is never read or closed.
C18_DoChecksStatusOnly ==
    /\ decodeCalls = <<>>
    /\ body = 0
    /\ bodyLog = <<>>
    /\ capRead = -1
    /\ (pc = "returned" /\ ~resp.nil) =>
          /\ retResp = "raw"
          /\ (retErr # NoErr) <=> ~(200 <= resp.status /\ resp.status <= 299)

\* Do returned a 300 response with a body, together with an error
C18_Witness ==
    /\ pc = "returned"
    /\ ~resp.nil
    /\ resp.status = 300
    /\ resp.bodyLen = 50
    /\ retResp = "raw"
    /\ retErr = Err("status", 300, 0, FALSE)

----------------------------------------------------------------------------
(* Properties of the traced body *)

\* C10 as stated: EndTrace has not been invoked while no Read has reported
\* end-of-data and Close has not been called, and it has been invoked once the
\* first Read reporting end-of-data, or the first Close, has returned, whether
\* or not the wrapped stream's own Close succeeded.
C10_EndTraceAtFirstTrigger ==
    /\ (~eofReturned /\ ~closeReturned) => endTraceCalls = 0
    /\ (eofReturned \/ closeReturned) => endTraceCalls >= 1

\* C11: under any sequence of Read and Close calls on one traced body EndTrace
\* is invoked at most once, and once a Read has reported end-of-data and a
\* Close has returned it has been invoked exactly once.
C11_EndTraceOneShot ==
    /\ endTraceCalls <= 1
    /\ (eofReturned /\ closeReturned) => endTraceCalls = 1

\* the body was read to end-of-data and then closed, with further calls made
C11_Witness ==
    /\ eofReturned
    /\ closeReturned
    /\ tClosed
    /\ tLast.op = "Close"
    /\ tLast.under = "nil"
    /\ tCalls >= 3
    /\ endTraceCalls = 1

\* C12: a call in which EndTrace was invoked and returned an error returns an
\* error wrapping it (a Read returns it with no bytes, in place of io.EOF); a
\* call in which EndTrace was not invoked, or returned nil, returns the wrapped
\* stream's own byte count and error.
C12_EndTraceErrorSurfaces ==
    [][ /\ (tLast'.fired /\ tLast'.endErr # "nil")
            => (tLast'.err = "wrapped endTrace" /\ tLast'.n = 0)
        /\ (~tLast'.fired \/ tLast'.endErr = "nil")
            => (tLast'.err = tLast'.under /\ tLast'.n = tRemaining - tRemaining')
      ]_vars

\* a Close whose EndTrace failed has returned, and so has such a Read
C12_Witness ==
    /\ tLast.fired
    /\ tLast.endErr = "endTrace"
    /\ tLast.err = "wrapped endTrace"
    /\ tLast.op = "Close"
    /\ tLast.under = "nil"

====
